---- MODULE Spec2Model ----
(***************************************************************************)
(* The superpage queue engine of the CRU DMA channel                       *)
(* (src/src/Cru/CruDmaChannel.cxx): per-link pending queues, the           *)
(* channel-wide ready queue, the incrementally maintained count of free    *)
(* transfer slots, and the start/stop/reset sequences around them.         *)
(* The card (register facade) is the environment: it keeps one superpage   *)
(* count per link, which the channel polls.                                *)
(***************************************************************************)
EXTENDS Integers, Sequences, FiniteSets, TLC

(***************************************************************************)
(* Bounds of the model.                                                    *)
(***************************************************************************)
\* largest link id a link mask may name (ids are 0..MaxLinkId)
MaxLinkId == 3
\* largest number of links in a link mask
MaxLinks == 2
\* capacity of a link's pending queue (LINK_QUEUE_CAPACITY)
LinkQueueCapacity == 2
\* capacity of the ready queue (READY_QUEUE_CAPACITY)
ReadyQueueCapacity == 2
\* number of superpages the producer hands to pushSuperpage in one run
MaxPush == 3
\* how far the card's superpage count may run ahead of the descriptors
\* it was given (a misbehaving card, the case fillSuperpages checks for)
MaxHwExcess == 1
\* width of the unsigned words of the model.  The code computes in 32 bit
\* words; every counter of the model stays far below 2^WordBits, and a
\* wrapped difference stays far above every queue capacity.
WordBits == 4
\* the fair distribution runs: up to ScenarioLinks links of a capacity up to
\* ScenarioCapacity, and ScenarioPushes pushes
ScenarioLinks == 3
ScenarioCapacity == 4
ScenarioPushes == 9

(***************************************************************************)
(* Program constants.                                                      *)
(***************************************************************************)
\* DMA page size in KiB
DMA_PAGE_SIZE == 8

\* superpage sizes (KiB) the producer uses; the queue engine does not
\* look at the size, it only copies it to received and to the descriptor
SuperpageSizes == {DMA_PAGE_SIZE, 2 * DMA_PAGE_SIZE}

LoopbackModes == {"None", "Internal", "Ddg"}

VARIABLES
    \* configuration, fixed at construction
    LINK_QUEUE_CAPACITY,        \* capacity of every link's pending queue
    READY_QUEUE_CAPACITY,       \* capacity of the ready queue
    mGeneratorEnabled,
    mLoopbackMode,
    dataSelection,              \* mFeatures.dataSelection
    \* channel state
    mLinks,                     \* 0..n-1 -> [id, superpageCounter, queue]
    mReadyQueue,
    mLinkQueuesTotalAvailable,
    mDmaState,                  \* "Stopped", "Started", "Aborted"
    mDebugRegisterReset,
    \* the card
    superpageCount,             \* link id -> superpages the card reports
    \* observation of the calls
    descriptorsPushed,          \* link id -> descriptors pushed since start
    debugModeEnabled,           \* the card's debug register
    hwLog,                      \* steps of the latest call: register commands
                                \* and the reinitialisation of the queues
    ret,                        \* the latest call and its outcome
    nextOffset,                 \* offset of the next superpage of the producer
    everStarted                 \* deviceStartDma has completed at least once

config == <<LINK_QUEUE_CAPACITY, READY_QUEUE_CAPACITY, mGeneratorEnabled,
            mLoopbackMode, dataSelection>>

vars == <<LINK_QUEUE_CAPACITY, READY_QUEUE_CAPACITY, mGeneratorEnabled,
          mLoopbackMode, dataSelection,
          mLinks, mReadyQueue, mLinkQueuesTotalAvailable, mDmaState,
          mDebugRegisterReset, superpageCount, descriptorsPushed,
          debugModeEnabled, hwLog, ret, nextOffset, everStarted>>

\* what the queue operations leave alone
lifecycle == <<mDmaState, mDebugRegisterReset, debugModeEnabled,
               everStarted>>

(***************************************************************************)
(* Helpers.                                                                *)
(***************************************************************************)
LinkIds == 0..MaxLinkId

NumLinks == Cardinality(DOMAIN mLinks)

LinkIndices == 0..(NumLinks - 1)

\* unsigned word arithmetic
U32(x) == x % (2 ^ WordBits)

\* the largest value of LinkIndex / size_t, the start values of the search
\* in getNextLinkIndex
NumericLimitsMax == 2 ^ WordBits - 1

\* the ids of a link mask in ascending order (iteration order of std::set)
RECURSIVE SortedIds(_)
SortedIds(S) ==
    IF S = {} THEN <<>>
    ELSE LET m == CHOOSE x \in S : \A y \in S : x <= y
         IN <<m>> \o SortedIds(S \ {m})

\* Link{id}: counter zero, empty queue
NewLink(id) == [id |-> id, superpageCounter |-> 0, queue |-> <<>>]

\* a superpage as the producer creates it
NewSuperpage(offset, size) ==
    [offset |-> offset, size |-> size, received |-> 0, ready |-> FALSE]

\* boost::circular_buffer::push_back: a full buffer drops its oldest element
CircularPushBack(q, x, capacity) ==
    IF capacity = 0 THEN q
    ELSE IF Len(q) < capacity THEN Append(q, x)
    ELSE Append(Tail(q), x)

\* the queue state the member functions work on
\* err names the exception that ended the call, "none" while it runs;
\* hw are the register commands the call has issued
Chan == [links |-> mLinks, ready |-> mReadyQueue,
         avail |-> mLinkQueuesTotalAvailable, err |-> "none", moved |-> 0,
         hw |-> <<>>]

(***************************************************************************)
(* getNextLinkIndex: the first link with the smallest pending queue.       *)
(***************************************************************************)
RECURSIVE NextLinkIndexLoop(_, _, _, _)
NextLinkIndexLoop(links, i, smallestQueueIndex, smallestQueueSize) ==
    IF i >= Cardinality(DOMAIN links) THEN smallestQueueIndex
    ELSE LET queueSize == Len(links[i].queue)
         IN IF queueSize < smallestQueueSize
            THEN NextLinkIndexLoop(links, i + 1, i, queueSize)
            ELSE NextLinkIndexLoop(links, i + 1, smallestQueueIndex,
                                   smallestQueueSize)

\* slip: <= for <, the last of the smallest queues wins
RECURSIVE NextLinkIndexLoop_LastWins(_, _, _, _)
NextLinkIndexLoop_LastWins(links, i, smallestQueueIndex, smallestQueueSize) ==
    IF i >= Cardinality(DOMAIN links) THEN smallestQueueIndex
    ELSE LET queueSize == Len(links[i].queue)
         IN IF queueSize <= smallestQueueSize
            THEN NextLinkIndexLoop_LastWins(links, i + 1, i, queueSize)
            ELSE NextLinkIndexLoop_LastWins(links, i + 1, smallestQueueIndex,
                                            smallestQueueSize)

getNextLinkIndex_LastWins(links) ==
    NextLinkIndexLoop_LastWins(links, 0, NumericLimitsMax, NumericLimitsMax)

\* slip: no search, the first link is always chosen
getNextLinkIndex_FirstLink(links) == 0

getNextLinkIndex(links) ==
    NextLinkIndexLoop(links, 0, NumericLimitsMax, NumericLimitsMax)

(***************************************************************************)
(* pushSuperpageToLink                                                     *)
(***************************************************************************)
\* slip: the slot count is not decremented
pushSuperpageToLink_KeepsSlot(c, i, superpage) ==
    [c EXCEPT !.links[i].queue =
                  CircularPushBack(c.links[i].queue, superpage,
                                   LINK_QUEUE_CAPACITY)]

pushSuperpageToLink(c, i, superpage) ==
    [c EXCEPT !.avail = c.avail - 1,
              !.links[i].queue =
                  CircularPushBack(c.links[i].queue, superpage,
                                   LINK_QUEUE_CAPACITY)]

(***************************************************************************)
(* transferSuperpageFromLinkToReady                                        *)
(***************************************************************************)
\* slip: the newest superpage of the link is transferred, not the oldest
transferSuperpageFromLinkToReady_Back(c, i) ==
    IF c.links[i].queue = <<>>
    THEN [c EXCEPT !.err = "LinkQueueEmpty"]
    ELSE LET q == c.links[i].queue
             back == q[Len(q)]
             done == [back EXCEPT !.ready = TRUE, !.received = back.size]
         IN [c EXCEPT !.ready = CircularPushBack(c.ready, done,
                                                 READY_QUEUE_CAPACITY),
                      !.links[i].queue = SubSeq(q, 1, Len(q) - 1),
                      !.links[i].superpageCounter =
                          U32(c.links[i].superpageCounter + 1),
                      !.avail = c.avail + 1]

\* slip: the front of the link queue is copied but not popped
transferSuperpageFromLinkToReady_NoPop(c, i) ==
    IF c.links[i].queue = <<>>
    THEN [c EXCEPT !.err = "LinkQueueEmpty"]
    ELSE LET front == c.links[i].queue[1]
             done  == [front EXCEPT !.ready = TRUE, !.received = front.size]
         IN [c EXCEPT !.ready = CircularPushBack(c.ready, done,
                                                 READY_QUEUE_CAPACITY),
                      !.links[i].superpageCounter =
                          U32(c.links[i].superpageCounter + 1),
                      !.avail = c.avail + 1]

\* slip: a transferred superpage is counted twice
transferSuperpageFromLinkToReady_CountsTwice(c, i) ==
    IF c.links[i].queue = <<>>
    THEN [c EXCEPT !.err = "LinkQueueEmpty"]
    ELSE LET front == c.links[i].queue[1]
             done  == [front EXCEPT !.ready = TRUE, !.received = front.size]
         IN [c EXCEPT !.ready = CircularPushBack(c.ready, done,
                                                 READY_QUEUE_CAPACITY),
                      !.links[i].queue = Tail(c.links[i].queue),
                      !.links[i].superpageCounter =
                          U32(c.links[i].superpageCounter + 2),
                      !.avail = c.avail + 1]

transferSuperpageFromLinkToReady(c, i) ==
    IF c.links[i].queue = <<>>
    THEN [c EXCEPT !.err = "LinkQueueEmpty"]
    ELSE LET front == c.links[i].queue[1]
             done  == [front EXCEPT !.ready = TRUE, !.received = front.size]
         IN [c EXCEPT !.ready = CircularPushBack(c.ready, done,
                                                 READY_QUEUE_CAPACITY),
                      !.links[i].queue = Tail(c.links[i].queue),
                      !.links[i].superpageCounter =
                          U32(c.links[i].superpageCounter + 1),
                      !.avail = c.avail + 1]

(***************************************************************************)
(* fillSuperpages: one poll pass over the links.  An exception leaves what *)
(* the pass has done so far in place.                                      *)
(***************************************************************************)
\* slip: <= for <, one transfer more than the card reported
RECURSIVE FillTransferLoop_OneMore(_, _, _, _)
FillTransferLoop_OneMore(c, linkIndex, i, amountAvailable) ==
    IF i > amountAvailable \/ c.err # "none" THEN c
    ELSE IF Len(c.ready) >= READY_QUEUE_CAPACITY THEN c
    ELSE FillTransferLoop_OneMore(
             transferSuperpageFromLinkToReady(c, linkIndex),
             linkIndex, i + 1, amountAvailable)

\* slip: the test for a full ready queue is missing
RECURSIVE FillTransferLoop_NoCapacityTest(_, _, _, _)
FillTransferLoop_NoCapacityTest(c, linkIndex, i, amountAvailable) ==
    IF i >= amountAvailable \/ c.err # "none" THEN c
    ELSE FillTransferLoop_NoCapacityTest(
             transferSuperpageFromLinkToReady(c, linkIndex),
             linkIndex, i + 1, amountAvailable)

RECURSIVE FillTransferLoop(_, _, _, _)
FillTransferLoop(c, linkIndex, i, amountAvailable) ==
    IF i >= amountAvailable \/ c.err # "none" THEN c
    ELSE IF Len(c.ready) >= READY_QUEUE_CAPACITY THEN c
    ELSE FillTransferLoop(transferSuperpageFromLinkToReady(c, linkIndex),
                          linkIndex, i + 1, amountAvailable)

\* slip: the consistency test comes after the transfers of the link
RECURSIVE FillLinkLoop_TestAfter(_, _)
FillLinkLoop_TestAfter(c, linkIndex) ==
    IF linkIndex >= Cardinality(DOMAIN c.links) \/ c.err # "none" THEN c
    ELSE LET link == c.links[linkIndex]
             count == U32(superpageCount[link.id])
             available == count > link.superpageCounter
             amountAvailable == U32(count - link.superpageCounter)
             d == FillTransferLoop(c, linkIndex, 0,
                                   IF amountAvailable <= Len(link.queue)
                                   THEN amountAvailable
                                   ELSE Len(link.queue))
         IN IF ~available THEN FillLinkLoop_TestAfter(c, linkIndex + 1)
            ELSE IF amountAvailable > Len(link.queue)
            THEN [d EXCEPT !.err = "FatalFirmware"]
            ELSE FillLinkLoop_TestAfter(d, linkIndex + 1)

\* slip: the loop bound of deviceStopDma (one extra superpage, no test for
\* new arrivals) used in fillSuperpages
RECURSIVE FillLinkLoop_OneExtra(_, _)
FillLinkLoop_OneExtra(c, linkIndex) ==
    IF linkIndex >= Cardinality(DOMAIN c.links) \/ c.err # "none" THEN c
    ELSE LET link == c.links[linkIndex]
             count == U32(superpageCount[link.id])
             amountAvailable == U32(count - link.superpageCounter + 1)
         IN IF amountAvailable > Len(link.queue)
            THEN FillLinkLoop_OneExtra(c, linkIndex + 1)
            ELSE FillLinkLoop_OneExtra(
                     FillTransferLoop(c, linkIndex, 0, amountAvailable),
                     linkIndex + 1)

\* slip: the pass ends after the first link
RECURSIVE FillLinkLoop_FirstLinkOnly(_, _)
FillLinkLoop_FirstLinkOnly(c, linkIndex) ==
    IF linkIndex >= 1 \/ c.err # "none" THEN c
    ELSE LET link == c.links[linkIndex]
             count == U32(superpageCount[link.id])
             available == count > link.superpageCounter
             amountAvailable == U32(count - link.superpageCounter)
         IN IF ~available THEN FillLinkLoop_FirstLinkOnly(c, linkIndex + 1)
            ELSE IF amountAvailable > Len(link.queue)
            THEN [c EXCEPT !.err = "FatalFirmware"]
            ELSE FillLinkLoop_FirstLinkOnly(
                     FillTransferLoop(c, linkIndex, 0, amountAvailable),
                     linkIndex + 1)

RECURSIVE FillLinkLoop(_, _)
FillLinkLoop(c, linkIndex) ==
    IF linkIndex >= Cardinality(DOMAIN c.links) \/ c.err # "none" THEN c
    ELSE LET link == c.links[linkIndex]
             count == U32(superpageCount[link.id])
             available == count > link.superpageCounter
             amountAvailable == U32(count - link.superpageCounter)
         IN IF ~available THEN FillLinkLoop(c, linkIndex + 1)
            ELSE IF amountAvailable > Len(link.queue)
            THEN [c EXCEPT !.err = "FatalFirmware"]
            ELSE FillLinkLoop(FillTransferLoop(c, linkIndex, 0,
                                               amountAvailable),
                              linkIndex + 1)

(***************************************************************************)
(* deviceStopDma: the drain.  A failed assert ends the process when the    *)
(* build has asserts (assertsEnabled), and is skipped when it has not      *)
(* (NDEBUG).                                                               *)
(***************************************************************************)
\* slip: the drain takes what the card reported and no extra superpage
RECURSIVE StopTransferLoop_NoExtra(_, _, _, _)
StopTransferLoop_NoExtra(c, linkIndex, i, bound) ==
    IF i + 1 >= bound \/ c.err # "none" THEN c
    ELSE IF Len(c.ready) >= READY_QUEUE_CAPACITY THEN c
    ELSE IF c.links[linkIndex].queue # <<>>
    THEN LET t == transferSuperpageFromLinkToReady(c, linkIndex)
         IN StopTransferLoop_NoExtra([t EXCEPT !.moved = t.moved + 1],
                                     linkIndex, i + 1, bound)
    ELSE StopTransferLoop_NoExtra(c, linkIndex, i + 1, bound)

\* slip: the drain does not test for a full ready queue
RECURSIVE StopTransferLoop_NoCapacityTest(_, _, _, _)
StopTransferLoop_NoCapacityTest(c, linkIndex, i, bound) ==
    IF i >= bound \/ c.err # "none" THEN c
    ELSE IF c.links[linkIndex].queue # <<>>
    THEN LET t == transferSuperpageFromLinkToReady(c, linkIndex)
         IN StopTransferLoop_NoCapacityTest([t EXCEPT !.moved = t.moved + 1],
                                            linkIndex, i + 1, bound)
    ELSE StopTransferLoop_NoCapacityTest(c, linkIndex, i + 1, bound)

RECURSIVE StopTransferLoop(_, _, _, _)
StopTransferLoop(c, linkIndex, i, bound) ==
    IF i >= bound \/ c.err # "none" THEN c
    ELSE IF Len(c.ready) >= READY_QUEUE_CAPACITY THEN c
    ELSE IF c.links[linkIndex].queue # <<>>
    THEN LET t == transferSuperpageFromLinkToReady(c, linkIndex)
         IN StopTransferLoop([t EXCEPT !.moved = t.moved + 1],
                             linkIndex, i + 1, bound)
    ELSE StopTransferLoop(c, linkIndex, i + 1, bound)

RECURSIVE StopLinkLoop(_, _, _)
StopLinkLoop(c, linkIndex, assertsEnabled) ==
    IF c.err # "none" THEN c
    ELSE IF linkIndex >= Cardinality(DOMAIN c.links)
    THEN IF assertsEnabled
            /\ c.avail # LINK_QUEUE_CAPACITY * Cardinality(DOMAIN c.links)
         THEN [c EXCEPT !.err = "AssertionFailed"]
         ELSE c
    ELSE LET link == c.links[linkIndex]
             count == superpageCount[link.id]
             amountAvailable == U32(count - link.superpageCounter)
             d == StopTransferLoop(c, linkIndex, 0, U32(amountAvailable + 1))
         IN IF assertsEnabled /\ d.links[linkIndex].queue # <<>>
            THEN [d EXCEPT !.err = "AssertionFailed"]
            ELSE StopLinkLoop(d, linkIndex + 1, assertsEnabled)

(***************************************************************************)
(* The state after construction.                                           *)
(***************************************************************************)
ZeroCounts == [id \in LinkIds |-> 0]

\* the latest call: the operation, its reset level if it takes one, its
\* status and, for getSuperpage and popSuperpage, the superpage it returned
\* (value holds none or one)
Result(op, status) ==
    [op |-> op, arg |-> "", status |-> status, value |-> <<>>]

Returned(op, superpage) == [Result(op, "ok") EXCEPT !.value = <<superpage>>]

Called(op, arg) == [Result(op, "ok") EXCEPT !.arg = arg]

\* link masks of up to n links: the k highest link ids, for k up to n
MasksUpTo(n) == {(MaxLinkId - k + 1)..MaxLinkId : k \in 1..n}

LinkMasks == MasksUpTo(MaxLinks)

\* the constructor: one link per id of the link mask, in ascending order
ConstructLinks(linkMask) ==
    [i \in 0..(Cardinality(linkMask) - 1) |->
        NewLink(SortedIds(linkMask)[i + 1])]

InitWith(masks, linkCaps, readyCaps, generators, loopbacks, selections) ==
    /\ LINK_QUEUE_CAPACITY \in linkCaps
    /\ READY_QUEUE_CAPACITY \in readyCaps
    /\ mGeneratorEnabled \in generators
    /\ mLoopbackMode \in loopbacks
    /\ dataSelection \in selections
    /\ \E linkMask \in masks : mLinks = ConstructLinks(linkMask)
    /\ mReadyQueue = <<>>
    /\ mLinkQueuesTotalAvailable = 0
    /\ mDmaState = "Stopped"
    /\ mDebugRegisterReset = FALSE
    /\ debugModeEnabled = FALSE
    /\ superpageCount = ZeroCounts
    /\ descriptorsPushed = ZeroCounts
    /\ hwLog = <<>>
    /\ ret = Result("construct", "ok")
    /\ nextOffset = 1
    /\ everStarted = FALSE

Init == InitWith(LinkMasks, {LinkQueueCapacity}, {ReadyQueueCapacity},
                 {TRUE}, {"Internal"}, {TRUE})

(***************************************************************************)
(* pushSuperpage                                                           *)
(***************************************************************************)
\* a register command; args are the link id, the DMA pages and the address
\* of a descriptor
Cmd(name) == [cmd |-> name, args |-> <<>>]

\* slip: the descriptor names link 0, not the link that took the superpage
PushDescriptor_LinkZero(link, superpage) ==
    [cmd |-> "pushSuperpageDescriptor",
     args |-> <<0, superpage.size \div DMA_PAGE_SIZE, superpage.offset>>]

PushDescriptor(link, superpage) ==
    [cmd |-> "pushSuperpageDescriptor",
     args |-> <<link.id, superpage.size \div DMA_PAGE_SIZE,
                superpage.offset>>]

\* slip: the test for a full transfer queue never fires
TransferQueueFull_Never(c) == c.avail < 0

\* the transfer queue (all link queues together) has no slot left
TransferQueueFull(c) == c.avail = 0

PushCall(c, superpage) ==
    IF TransferQueueFull(c) THEN [c EXCEPT !.err = "QueueFull"]
    ELSE LET linkIndex == getNextLinkIndex(c.links)
             link == c.links[linkIndex]
         IN IF Len(link.queue) >= LINK_QUEUE_CAPACITY
            THEN [c EXCEPT !.err = "LinkQueueFull"]
            ELSE [pushSuperpageToLink(c, linkIndex, superpage)
                     EXCEPT !.hw = <<PushDescriptor(link, superpage)>>]

\* the producer pushes superpages of increasing offsets, budget of them
PushWith(sizes, budget) ==
    /\ mDmaState # "Aborted"
    /\ nextOffset <= budget
    /\ \E size \in sizes :
         LET c == PushCall(Chan, NewSuperpage(nextOffset, size))
         IN /\ mLinks' = c.links
            /\ mLinkQueuesTotalAvailable' = c.avail
            /\ hwLog' = c.hw
            /\ descriptorsPushed' =
                   [id \in LinkIds |->
                       descriptorsPushed[id]
                       + Cardinality({k \in 1..Len(c.hw) :
                                        c.hw[k].args[1] = id})]
            /\ nextOffset' = IF c.err = "none" THEN nextOffset + 1
                             ELSE nextOffset
            /\ ret' = Result("push", IF c.err = "none" THEN "ok" ELSE c.err)
    /\ UNCHANGED <<config, lifecycle, mReadyQueue, superpageCount>>

pushSuperpage == PushWith({2 * DMA_PAGE_SIZE}, MaxPush)

(***************************************************************************)
(* fillSuperpages                                                          *)
(***************************************************************************)
fillSuperpages ==
    /\ mDmaState # "Aborted"
    /\ LET c == FillLinkLoop(Chan, 0)
       IN /\ mLinks' = c.links
          /\ mReadyQueue' = c.ready
          /\ mLinkQueuesTotalAvailable' = c.avail
          /\ ret' = Result("fill", IF c.err = "none" THEN "ok" ELSE c.err)
    /\ hwLog' = <<>>
    /\ UNCHANGED <<config, lifecycle, superpageCount, descriptorsPushed,
                   nextOffset>>

(***************************************************************************)
(* getSuperpage and popSuperpage                                           *)
(***************************************************************************)
getSuperpage ==
    /\ mDmaState # "Aborted"
    /\ ret' = IF mReadyQueue = <<>>
              THEN Result("peek", "QueueEmpty")
              ELSE Returned("peek", Head(mReadyQueue))
    /\ hwLog' = <<>>
    /\ UNCHANGED <<config, mLinks, mReadyQueue, mLinkQueuesTotalAvailable,
                   lifecycle, superpageCount, descriptorsPushed, nextOffset>>

\* slip: the newest entry is taken, not the oldest
popSuperpage_Back ==
    /\ mDmaState # "Aborted"
    /\ IF mReadyQueue = <<>>
       THEN /\ ret' = Result("pop", "QueueEmpty")
            /\ UNCHANGED mReadyQueue
       ELSE /\ ret' = Returned("pop", mReadyQueue[Len(mReadyQueue)])
            /\ mReadyQueue' = SubSeq(mReadyQueue, 1, Len(mReadyQueue) - 1)
    /\ hwLog' = <<>>
    /\ UNCHANGED <<config, mLinks, mLinkQueuesTotalAvailable,
                   lifecycle, superpageCount, descriptorsPushed, nextOffset>>

popSuperpage ==
    /\ mDmaState # "Aborted"
    /\ IF mReadyQueue = <<>>
       THEN /\ ret' = Result("pop", "QueueEmpty")
            /\ UNCHANGED mReadyQueue
       ELSE /\ ret' = Returned("pop", Head(mReadyQueue))
            /\ mReadyQueue' = Tail(mReadyQueue)
    /\ hwLog' = <<>>
    /\ UNCHANGED <<config, mLinks, mLinkQueuesTotalAvailable,
                   lifecycle, superpageCount, descriptorsPushed, nextOffset>>

(***************************************************************************)
(* resetCru                                                                *)
(***************************************************************************)
resetCru == <<Cmd("resetDataGeneratorCounter"), Cmd("resetCard")>>

(***************************************************************************)
(* deviceStartDma, called by startDma of a stopped channel.  resetCard     *)
(* starts a new session of the card: its superpage counts restart at 0.    *)
(***************************************************************************)
\* slip: the buffer is armed before the card is reset and the queues are
\* cleared
StartSequence_ArmsFirst(configuration, taking) ==
    configuration \o <<Cmd("setDataEmulatorEnabled(true)")>> \o resetCru
        \o <<Cmd("clearQueues")>> \o taking

\* what a start does after the data source is chosen, in the order of the
\* code: configuration, resetCru, the clearing of the queues (a mark in the
\* log), setBufferReady, and the data-taking commands
StartSequence(configuration, taking) ==
    configuration \o resetCru
        \o <<Cmd("clearQueues"), Cmd("setDataEmulatorEnabled(true)")>>
        \o taking

\* slip: with the data generator every loopback mode is taken
DataSourceSupported_Generator(generatorEnabled, loopbackMode) ==
    generatorEnabled \/ loopbackMode = "None"

\* the combinations for which a data source is selected; the others throw
DataSourceSupported(generatorEnabled, loopbackMode) ==
    IF generatorEnabled
    THEN loopbackMode \in {"Internal", "Ddg"}
    ELSE loopbackMode = "None"

\* slip: the queues are cleared, the counters are kept
ClearLinks_KeepsCounter(links) ==
    [i \in DOMAIN links |-> [links[i] EXCEPT !.queue = <<>>]]

\* every link's queue is cleared and its superpageCounter set to 0
ClearLinks(links) ==
    [i \in DOMAIN links |->
        [links[i] EXCEPT !.queue = <<>>, !.superpageCounter = 0]]

deviceStartDma ==
    /\ mDmaState = "Stopped"
    /\ LET pattern == IF mGeneratorEnabled
                      THEN <<Cmd("setDataGeneratorPattern")>> ELSE <<>>
           supported == DataSourceSupported(mGeneratorEnabled, mLoopbackMode)
           dataSourceSelection ==
               IF mGeneratorEnabled /\ mLoopbackMode = "Internal"
               THEN "DATA_SOURCE_SELECT_INTERNAL"
               ELSE "DATA_SOURCE_SELECT_GBT"
           enableDebug == mGeneratorEnabled /\ mLoopbackMode = "Internal"
                          /\ ~debugModeEnabled
           debug == IF enableDebug
                    THEN <<Cmd("setDebugModeEnabled(true)")>> ELSE <<>>
           source == IF dataSelection THEN <<Cmd("setDataSource")>> ELSE <<>>
           taking == IF dataSourceSelection = "DATA_SOURCE_SELECT_GBT"
                     THEN <<Cmd("disableDataTaking"), Cmd("enableDataTaking")>>
                     ELSE <<>>
       IN IF ~supported
          THEN /\ ret' = Result("start", "UnsupportedConfiguration")
               /\ hwLog' = pattern
               /\ UNCHANGED <<mLinks, mReadyQueue, mLinkQueuesTotalAvailable,
                              lifecycle, superpageCount, descriptorsPushed>>
          ELSE /\ mLinks' = ClearLinks(mLinks)
               /\ mReadyQueue' = <<>>
               /\ mLinkQueuesTotalAvailable' = LINK_QUEUE_CAPACITY * NumLinks
               /\ mDmaState' = "Started"
               /\ everStarted' = TRUE
               /\ debugModeEnabled' = (debugModeEnabled \/ enableDebug)
               /\ mDebugRegisterReset' = (mDebugRegisterReset \/ enableDebug)
               /\ superpageCount' = ZeroCounts
               /\ descriptorsPushed' = ZeroCounts
               /\ hwLog' = StartSequence(pattern \o debug \o source, taking)
               /\ ret' = Result("start", "ok")
    /\ UNCHANGED <<config, nextOffset>>

(***************************************************************************)
(* deviceStopDma, called by stopDma of a started channel.                  *)
(***************************************************************************)
deviceStopDma ==
    /\ mDmaState = "Started"
    /\ \E assertsEnabled \in BOOLEAN :
         LET c == StopLinkLoop(Chan, 0, assertsEnabled)
         IN /\ mLinks' = c.links
            /\ mReadyQueue' = c.ready
            /\ mLinkQueuesTotalAvailable' = c.avail
            /\ mDmaState' = IF c.err = "none" THEN "Stopped" ELSE "Aborted"
            /\ ret' = Result("stop", IF c.err = "none" THEN "ok" ELSE c.err)
    /\ hwLog' = <<Cmd("setDataEmulatorEnabled(false)"),
                  Cmd("disableDataTaking")>>
    /\ UNCHANGED <<config, mDebugRegisterReset, debugModeEnabled,
                   everStarted, superpageCount, descriptorsPushed,
                   nextOffset>>

(***************************************************************************)
(* deviceResetChannel, called by resetChannel of a stopped channel:        *)
(* Resetting is entered from Stopped.                                      *)
(***************************************************************************)
ResetLevels == {"Nothing", "Rorc", "RorcDiu", "RorcDiuSiu"}

\* slip: the test for ResetLevel::Nothing is missing
ResetCommands_Always(resetLevel) == resetCru

\* what the card is sent for a reset level
ResetCommands(resetLevel) ==
    IF resetLevel = "Nothing" THEN <<>> ELSE resetCru

deviceResetChannel ==
    /\ mDmaState = "Stopped"
    /\ \E resetLevel \in ResetLevels :
         /\ hwLog' = ResetCommands(resetLevel)
         /\ superpageCount' = IF ResetCommands(resetLevel) = <<>>
                              THEN superpageCount
                              ELSE ZeroCounts
         /\ ret' = Called("reset", resetLevel)
    /\ UNCHANGED <<config, mLinks, mReadyQueue, mLinkQueuesTotalAvailable,
                   lifecycle, descriptorsPushed, nextOffset>>

(***************************************************************************)
(* The card reports one more superpage of a link as written.  A card that  *)
(* follows the protocol reports no more than the descriptors it was given; *)
(* the model lets it run ahead by MaxHwExcess.                             *)
(***************************************************************************)
CardArrivalWith(excess) ==
    /\ mDmaState = "Started"
    /\ \E i \in LinkIndices :
         LET id == mLinks[i].id
         IN /\ superpageCount[id] < descriptorsPushed[id] + excess
            /\ superpageCount' = [superpageCount EXCEPT ![id] = @ + 1]
    /\ hwLog' = <<>>
    /\ ret' = Result("card", "ok")
    /\ UNCHANGED <<config, mLinks, mReadyQueue, mLinkQueuesTotalAvailable,
                   lifecycle, descriptorsPushed, nextOffset>>

cardArrival == CardArrivalWith(MaxHwExcess)

Next ==
    \/ deviceStartDma
    \/ deviceStopDma
    \/ deviceResetChannel
    \/ pushSuperpage
    \/ fillSuperpages
    \/ getSuperpage
    \/ popSuperpage
    \/ cardArrival

Spec == Init /\ [][Next]_vars

(***************************************************************************)
(* Runs of pushes only, on channels of up to ScenarioLinks links.          *)
(***************************************************************************)
InitFair == InitWith(MasksUpTo(ScenarioLinks), 1..ScenarioCapacity,
                     {ReadyQueueCapacity}, {TRUE}, {"Internal"}, {TRUE})

pushSuperpageFair == PushWith(SuperpageSizes, ScenarioPushes)

NextFair ==
    \/ deviceStartDma
    \/ pushSuperpageFair

SpecFair == InitFair /\ [][NextFair]_vars

(***************************************************************************)
(* Runs without pops: what was pushed stays in the queues.                 *)
(***************************************************************************)
NextFifo ==
    \/ deviceStartDma
    \/ deviceStopDma
    \/ pushSuperpage
    \/ fillSuperpages
    \/ cardArrival

SpecFifo == Init /\ [][NextFifo]_vars

(***************************************************************************)
(* Runs without pops that also cover a channel of 2 links of capacity      *)
(* ScenarioCapacity, filled to the brim.                                   *)
(***************************************************************************)
InitFill ==
    InitWith({(MaxLinkId - 1)..MaxLinkId},
             {LinkQueueCapacity, ScenarioCapacity},
             {ReadyQueueCapacity}, {TRUE}, {"Internal"}, {TRUE})

pushSuperpageFill == PushWith({2 * DMA_PAGE_SIZE}, ScenarioPushes)

NextFill ==
    \/ deviceStartDma
    \/ deviceStopDma
    \/ pushSuperpageFill
    \/ fillSuperpages
    \/ cardArrival

SpecFill == InitFill /\ [][NextFill]_vars

(***************************************************************************)
(* Channels of every configuration the constructor accepts: with or        *)
(* without the data generator, every loopback mode, firmware with or       *)
(* without data selection.  The ready queue is not read.                   *)
(***************************************************************************)
InitLifecycle ==
    InitWith(LinkMasks, {LinkQueueCapacity}, {ReadyQueueCapacity},
             BOOLEAN, LoopbackModes, BOOLEAN)

NextLifecycle ==
    \/ deviceStartDma
    \/ deviceStopDma
    \/ deviceResetChannel
    \/ pushSuperpage
    \/ fillSuperpages
    \/ cardArrival

SpecLifecycle == InitLifecycle /\ [][NextLifecycle]_vars

(***************************************************************************)
(* One session of a channel whose card follows the protocol: it reports no *)
(* more superpages than it was given descriptors.  The consumer polls: a   *)
(* fill that has something to do is called in the end, and so is a pop.    *)
(***************************************************************************)
cardReports == CardArrivalWith(0)

NextLive ==
    \/ deviceStartDma
    \/ pushSuperpage
    \/ cardReports
    \/ fillSuperpages
    \/ popSuperpage

SpecLive ==
    /\ Init
    /\ [][NextLive]_vars
    /\ WF_vars(fillSuperpages)
    /\ WF_vars(popSuperpage)

(***************************************************************************)
(* Properties of the queue engine.                                         *)
(***************************************************************************)
RECURSIVE SumPendingUpTo(_, _)
SumPendingUpTo(links, n) ==
    IF n = 0 THEN 0
    ELSE Len(links[n - 1].queue) + SumPendingUpTo(links, n - 1)

\* the scan over the link queues
SumPending(links) == SumPendingUpTo(links, Cardinality(DOMAIN links))

\* all queued superpages: the link queues in link order, then the ready queue
RECURSIVE PendingUpTo(_, _)
PendingUpTo(links, n) ==
    IF n = 0 THEN <<>>
    ELSE PendingUpTo(links, n - 1) \o links[n - 1].queue

AllQueued == PendingUpTo(mLinks, NumLinks) \o mReadyQueue

Offsets(q) == {q[k].offset : k \in 1..Len(q)}

\* C1: once the channel has been started, the incrementally kept count of
\* free transfer slots equals the per-link capacity times the number of
\* links minus the sum of the sizes of all link pending queues.
C1_SlotsEqualScan ==
    everStarted =>
        mLinkQueuesTotalAvailable
            = LINK_QUEUE_CAPACITY * NumLinks - SumPending(mLinks)

\* a started channel with superpages pending and transferred
C1_Witness ==
    /\ everStarted
    /\ SumPending(mLinks) > 0
    /\ \E i \in LinkIndices : mLinks[i].superpageCounter > 0
    /\ mLinkQueuesTotalAvailable < LINK_QUEUE_CAPACITY * NumLinks

\* C2: a superpage accepted by push is in at most one place of the queues:
\* no two positions of the link pending queues and the ready queue hold the
\* same superpage.
C2_NoDuplicate ==
    \A k, l \in 1..Len(AllQueued) :
        AllQueued[k].offset = AllQueued[l].offset => k = l

\* superpages in a pending queue and in the ready queue at the same time
C2_Witness ==
    /\ Len(mReadyQueue) >= 1
    /\ SumPending(mLinks) >= 1
    /\ Len(AllQueued) >= 3

\* C3: a push while no transfer slot is available fails with QueueFull,
\* changes no pending queue, not the ready queue, no counter and not the
\* slot count, and issues no register command.
C3_PushWhenFullRejected ==
    [][(ret'.op = "push" /\ mLinkQueuesTotalAvailable = 0)
        => /\ ret'.status = "QueueFull"
           /\ mLinks' = mLinks
           /\ mReadyQueue' = mReadyQueue
           /\ mLinkQueuesTotalAvailable' = mLinkQueuesTotalAvailable
           /\ hwLog' = <<>>
           /\ descriptorsPushed' = descriptorsPushed]_vars

\* a push was rejected by a started channel whose queues are all full
C3_Witness ==
    /\ ret.op = "push" /\ ret.status = "QueueFull"
    /\ everStarted
    /\ mLinkQueuesTotalAvailable = 0
    /\ \A i \in LinkIndices : Len(mLinks[i].queue) = LINK_QUEUE_CAPACITY

\* the least loaded link, the lowest index among equals
IsLeastLoaded(links, i) ==
    /\ \A j \in DOMAIN links : Len(links[i].queue) <= Len(links[j].queue)
    /\ \A j \in DOMAIN links :
          j < i => Len(links[j].queue) > Len(links[i].queue)

\* C4: a successful push appends the superpage to the pending queue of the
\* link with the fewest pending superpages, the lowest index among equals,
\* and changes no other link.
C4_PushToLeastLoaded ==
    [][(ret'.op = "push" /\ ret'.status = "ok")
        => \E i \in LinkIndices :
              /\ IsLeastLoaded(mLinks, i)
              /\ Len(mLinks'[i].queue) = Len(mLinks[i].queue) + 1
              /\ SubSeq(mLinks'[i].queue, 1, Len(mLinks[i].queue))
                    = mLinks[i].queue
              /\ mLinks'[i].queue[Len(mLinks'[i].queue)].offset = nextOffset
              /\ \A j \in LinkIndices : j # i => mLinks'[j] = mLinks[j]]_vars

\* three pushes on two links: the first link holds two superpages, the
\* second one
C4_Witness ==
    /\ NumLinks = 2
    /\ ret.op = "push" /\ ret.status = "ok"
    /\ Len(mLinks[0].queue) = 2
    /\ Len(mLinks[1].queue) = 1

\* C5: while a started channel is only pushed to, the pending queue sizes
\* of any two links differ by at most 1; with 3 links of capacity 4 and 9
\* pushes every link holds exactly 3 superpages.
C5_FairDistribution ==
    /\ \A i, j \in LinkIndices :
          Len(mLinks[i].queue) - Len(mLinks[j].queue) <= 1
    /\ (NumLinks = 3 /\ LINK_QUEUE_CAPACITY = 4 /\ nextOffset = 9 + 1)
          => \A i \in LinkIndices : Len(mLinks[i].queue) = 3

\* 9 pushes on 3 links of capacity 4
C5_Witness ==
    /\ NumLinks = 3 /\ LINK_QUEUE_CAPACITY = 4 /\ nextOffset = 9 + 1
    /\ ret.op = "push" /\ ret.status = "ok"
    /\ SumPending(mLinks) = 9

OffsetSeq(q) == [k \in 1..Len(q) |-> q[k].offset]

\* the superpages a step has taken from the front of link i
Taken(i) == SubSeq(mLinks[i].queue, 1,
                   Len(mLinks[i].queue) - Len(mLinks'[i].queue))

RECURSIVE TakenUpTo(_)
TakenUpTo(n) == IF n = 0 THEN <<>> ELSE TakenUpTo(n - 1) \o Taken(n - 1)

\* the number of superpages accepted since the last start
SessionPushes ==
    LET RECURSIVE Sum(_)
        Sum(n) == IF n = 0 THEN 0
                  ELSE descriptorsPushed[mLinks[n - 1].id] + Sum(n - 1)
    IN Sum(NumLinks)

\* C6: a link's pending queue is in push order and a fill or stop takes
\* superpages from the front of each link queue only, appending them to the
\* ready queue in that order; without pops, on a single link, the ready queue
\* followed by the pending queue is the sequence of the pushes of the
\* session, so the ready queue is a prefix of it.
C6_Fifo ==
    /\ [](\A i \in LinkIndices :
            \A k, l \in 1..Len(mLinks[i].queue) :
                k < l => mLinks[i].queue[k].offset < mLinks[i].queue[l].offset)
    /\ [](NumLinks = 1 =>
            LET all == OffsetSeq(mReadyQueue \o mLinks[0].queue)
            IN /\ Len(all) = SessionPushes
               /\ \A k \in 1..Len(all) :
                     all[k] = nextOffset - SessionPushes + k - 1)
    /\ [][ret'.op \in {"fill", "stop"}
           => /\ \A i \in LinkIndices :
                    /\ Len(mLinks'[i].queue) <= Len(mLinks[i].queue)
                    /\ mLinks'[i].queue
                          = SubSeq(mLinks[i].queue,
                                   Len(Taken(i)) + 1, Len(mLinks[i].queue))
              /\ OffsetSeq(mReadyQueue')
                    = OffsetSeq(mReadyQueue \o TakenUpTo(NumLinks))]_vars

\* two superpages of a single link have reached the ready queue, a third
\* one is pending
C6_Witness ==
    /\ NumLinks = 1
    /\ Len(mReadyQueue) = 2
    /\ Len(mLinks[0].queue) = 1
    /\ ret.op = "fill"

\* a superpage as a transfer leaves it in the ready queue
Completed(superpage) ==
    [superpage EXCEPT !.ready = TRUE, !.received = superpage.size]

CompletedSeq(q) == [k \in 1..Len(q) |-> Completed(q[k])]

\* what the card reports for link i
HwCount(i) == superpageCount[mLinks[i].id]

RECURSIVE SumUpTo(_, _)
SumUpTo(f, n) == IF n = 0 THEN 0 ELSE f[n - 1] + SumUpTo(f, n - 1)

\* a fill step that moves, for every link i, exactly arrivals[i] superpages
\* from the front of the link's pending queue to the back of the ready
\* queue, completed, and counts each of them
FillMoves(arrivals) ==
    /\ \A i \in LinkIndices :
          /\ Len(mLinks[i].queue) - Len(mLinks'[i].queue) = arrivals[i]
          /\ mLinks'[i].queue
                = SubSeq(mLinks[i].queue, arrivals[i] + 1,
                         Len(mLinks[i].queue))
          /\ mLinks'[i].superpageCounter
                = mLinks[i].superpageCounter + arrivals[i]
          /\ mLinks'[i].id = mLinks[i].id
    /\ mReadyQueue' = mReadyQueue \o CompletedSeq(TakenUpTo(NumLinks))
    /\ mLinkQueuesTotalAvailable'
          = mLinkQueuesTotalAvailable + SumUpTo(arrivals, NumLinks)

\* a fill step that succeeds and leaves room in the ready queue
FillWithRoom ==
    /\ ret'.op = "fill" /\ ret'.status = "ok"
    /\ Len(mReadyQueue') < READY_QUEUE_CAPACITY

\* filled to the brim: 2 links of capacity 4 take 8 pushes and refuse the
\* 9th; one arrival on link 0 lets a fill move one superpage, which frees
\* one slot for the next push
BrimScenario ==
    (NumLinks = 2 /\ LINK_QUEUE_CAPACITY = 4 /\ everStarted)
    => /\ (ret'.op = "push" /\ SumPending(mLinks) < 8)
             => ret'.status = "ok"
       /\ (ret'.op = "push" /\ SumPending(mLinks) = 8)
             => ret'.status = "QueueFull"
       /\ (/\ ret'.op = "fill"
           /\ SumPending(mLinks) = 8 /\ mReadyQueue = <<>>
           /\ HwCount(0) = mLinks[0].superpageCounter + 1
           /\ HwCount(1) = mLinks[1].superpageCounter)
             => /\ ret'.status = "ok"
                /\ mReadyQueue' = <<Completed(mLinks[0].queue[1])>>
                /\ mLinkQueuesTotalAvailable' = 1

Overreported(i) ==
    /\ HwCount(i) > mLinks[i].superpageCounter
    /\ HwCount(i) - mLinks[i].superpageCounter > Len(mLinks[i].queue)

IsPrefix(p, q) == Len(p) <= Len(q) /\ SubSeq(q, 1, Len(p)) = p

\* C8: a fill that finds the card's count of a link above the link's
\* superpageCounter by more than the link has pending fails with the fatal
\* firmware error, and leaves that link's pending queue and superpageCounter
\* as they were: the ready queue keeps its entries and gains none of that
\* link.
C8_OverreportFatal ==
    [][ret'.op = "fill"
        => \A i \in LinkIndices :
              Overreported(i)
              => /\ ret'.status = "FatalFirmware"
                 /\ mLinks'[i] = mLinks[i]
                 /\ IsPrefix(mReadyQueue, mReadyQueue')
                 /\ Offsets(mLinks[i].queue) \cap Offsets(mReadyQueue')
                      = {}]_vars

\* a fill has failed on the second link, which holds a pending superpage,
\* after it had transferred a superpage of the first link
C8_Witness ==
    /\ ret.op = "fill" /\ ret.status = "FatalFirmware"
    /\ NumLinks = 2
    /\ Overreported(1) /\ ~Overreported(0)
    /\ mLinks[1].queue # <<>>
    /\ mLinks[0].superpageCounter > 0
    /\ mLinks[0].superpageCounter = HwCount(0)

NoNewArrivals == \A i \in LinkIndices : HwCount(i) <= mLinks[i].superpageCounter

\* C9: a fill while the card reports no link above its superpageCounter
\* changes no pending queue, not the ready queue, no superpageCounter and not
\* the slot count; after a successful fill that leaves room in the ready
\* queue the channel is in such a state, so that a second fill changes
\* nothing.
C9_FillIdempotent ==
    /\ []((ret.op = "fill" /\ ret.status = "ok"
            /\ Len(mReadyQueue) < READY_QUEUE_CAPACITY) => NoNewArrivals)
    /\ [][(ret'.op = "fill" /\ NoNewArrivals)
           => /\ mLinks' = mLinks
              /\ mReadyQueue' = mReadyQueue
              /\ mLinkQueuesTotalAvailable'
                    = mLinkQueuesTotalAvailable]_vars

\* a fill has caught up with the card while superpages are still pending
C9_Witness ==
    /\ ret.op = "fill" /\ ret.status = "ok"
    /\ Len(mReadyQueue) \in 1..(READY_QUEUE_CAPACITY - 1)
    /\ NoNewArrivals
    /\ \E i \in LinkIndices :
          /\ mLinks[i].superpageCounter > 0
          /\ mLinks[i].queue # <<>>

\* C10: the ready queue never holds more than READY_QUEUE_CAPACITY
\* superpages, and a fill or stop only appends to it what it takes from the
\* front of the link queues: no entry is overwritten, a link's
\* superpageCounter advances by what was taken from it, and a fill takes
\* less than the card reports for a link only when the ready queue is full.
C10_ReadyQueueBounded ==
    /\ [](Len(mReadyQueue) <= READY_QUEUE_CAPACITY)
    /\ [][ret'.op \in {"fill", "stop"}
           => /\ mReadyQueue'
                    = mReadyQueue \o CompletedSeq(TakenUpTo(NumLinks))
              /\ \A i \in LinkIndices :
                    /\ Len(mLinks'[i].queue) <= Len(mLinks[i].queue)
                    /\ mLinks'[i].queue
                          = SubSeq(mLinks[i].queue, Len(Taken(i)) + 1,
                                   Len(mLinks[i].queue))
                    /\ mLinks'[i].superpageCounter
                          = mLinks[i].superpageCounter + Len(Taken(i))
                    /\ (/\ ret'.op = "fill" /\ ret'.status = "ok"
                        /\ HwCount(i) > mLinks[i].superpageCounter
                        /\ Len(Taken(i))
                             < HwCount(i) - mLinks[i].superpageCounter)
                          => Len(mReadyQueue') = READY_QUEUE_CAPACITY]_vars

\* a fill has stopped at a full ready queue and left an arrived superpage
\* at the front of a link queue
C10_Witness ==
    /\ ret.op = "fill" /\ ret.status = "ok"
    /\ Len(mReadyQueue) = READY_QUEUE_CAPACITY
    /\ \E i \in LinkIndices :
          /\ HwCount(i) > mLinks[i].superpageCounter
          /\ mLinks[i].queue # <<>>
          /\ mLinks[i].superpageCounter > 0

\* everything of the channel but the ready queue and what the latest call
\* reported
AllButReadyQueue ==
    <<config, mLinks, mLinkQueuesTotalAvailable, lifecycle, superpageCount,
      descriptorsPushed, nextOffset>>

\* C11: popSuperpage on a non-empty ready queue returns the front entry,
\* removes it and changes nothing else; getSuperpage returns the front entry,
\* which is what a popSuperpage called next returns, and changes nothing; on
\* an empty ready queue both fail with QueueEmpty and change nothing.
C11_PopPeek ==
    /\ []((ret.op = "peek" /\ ret.status = "ok")
            => /\ mReadyQueue # <<>>
               /\ ret.value = <<Head(mReadyQueue)>>)
    /\ [][ret'.op \in {"pop", "peek"}
           => /\ UNCHANGED AllButReadyQueue
              /\ IF mReadyQueue = <<>>
                 THEN /\ ret'.status = "QueueEmpty" /\ ret'.value = <<>>
                      /\ UNCHANGED mReadyQueue
                 ELSE /\ ret'.status = "ok"
                      /\ ret'.value = <<Head(mReadyQueue)>>
                      /\ mReadyQueue' = IF ret'.op = "pop"
                                        THEN Tail(mReadyQueue)
                                        ELSE mReadyQueue]_vars

\* a pop has returned the older of two ready superpages and left the newer
C11_Witness ==
    /\ ret.op = "pop" /\ ret.status = "ok"
    /\ Len(mReadyQueue) = 1
    /\ ret.value[1].ready
    /\ ret.value[1].offset < mReadyQueue[1].offset

\* every link queue is empty and every slot of the transfer queue is free
Drained ==
    /\ \A i \in LinkIndices : mLinks[i].queue = <<>>
    /\ mLinkQueuesTotalAvailable = LINK_QUEUE_CAPACITY * NumLinks

\* C12: a stop that completes leaves every link queue empty and
\* mLinkQueuesTotalAvailable at LINK_QUEUE_CAPACITY times the number of
\* links; a stop whose drain leaves a superpage pending ends with a fatal
\* error.
C12_StopDrainsOrFails ==
    [][ret'.op = "stop"
        => /\ ret'.status = "ok" => Drained'
           /\ ~Drained' => ret'.status = "AssertionFailed"]_vars

Min3(a, b, c) ==
    LET m == IF a <= b THEN a ELSE b
    IN IF m <= c THEN m ELSE c

\* what the drain of a stop is to take from link i: no more than the link has
\* pending, than the card reports beyond superpageCounter plus one, and than
\* the ready queue has room for once the links before i have been drained
RECURSIVE StopQuota(_)
StopQuota(i) ==
    LET RECURSIVE Before(_)
        Before(n) == IF n = 0 THEN 0 ELSE StopQuota(n - 1) + Before(n - 1)
    IN Min3(Len(mLinks[i].queue),
            (HwCount(i) - mLinks[i].superpageCounter) + 1,
            READY_QUEUE_CAPACITY - Len(mReadyQueue) - Before(i))

\* C13: a stop that returns moves from every link exactly the minimum of its
\* pending superpages, of (card count - superpageCounter) + 1 and of the
\* free slots of the ready queue, from the front of the link queue to the
\* back of the ready queue; no stop takes more than
\* (card count - superpageCounter) + 1 from a link, also when the card count
\* is not above superpageCounter; with 2 superpages pending on a link, both
\* reported by the card, and room for 2 in the ready queue, both end in the
\* ready queue and the link queue is empty.
C13_StopMoves ==
    /\ [][(ret'.op = "stop" /\ ret'.status = "ok")
           => FillMoves([i \in LinkIndices |-> StopQuota(i)])]_vars
    /\ [][ret'.op = "stop"
           => \A i \in LinkIndices :
                 Len(Taken(i))
                    <= (HwCount(i) - mLinks[i].superpageCounter) + 1]_vars
    /\ [][(/\ ret'.op = "stop"
           /\ NumLinks = 1
           /\ Len(mLinks[0].queue) = 2
           /\ HwCount(0) - mLinks[0].superpageCounter = 2
           /\ Len(mReadyQueue) + 2 <= READY_QUEUE_CAPACITY)
           => /\ mLinks'[0].queue = <<>>
              /\ mReadyQueue'
                    = mReadyQueue \o CompletedSeq(mLinks[0].queue)
              /\ ret'.status = "ok"]_vars

\* a stop has drained 2 links: from the first the one superpage the card had
\* not reported, from the second nothing, the ready queue being full
C13_Witness ==
    /\ ret.op = "stop" /\ ret.status = "ok"
    /\ NumLinks = 2
    /\ mLinks[0].superpageCounter = HwCount(0) + 1
    /\ mLinks[0].queue = <<>>
    /\ mLinks[1].queue # <<>>
    /\ Len(mReadyQueue) = READY_QUEUE_CAPACITY

\* C14: a start that succeeds, whatever the earlier session left in the
\* queues, ends with every link queue empty, every superpageCounter 0, the
\* ready queue empty and mLinkQueuesTotalAvailable at LINK_QUEUE_CAPACITY
\* times the number of links.
C14_StartClears ==
    [][(ret'.op = "start" /\ ret'.status = "ok")
        => /\ \A i \in LinkIndices :
                 /\ mLinks'[i].queue = <<>>
                 /\ mLinks'[i].superpageCounter = 0
                 /\ mLinks'[i].id = mLinks[i].id
           /\ DOMAIN mLinks' = DOMAIN mLinks
           /\ mReadyQueue' = <<>>
           /\ mLinkQueuesTotalAvailable' = LINK_QUEUE_CAPACITY * NumLinks]_vars

\* a channel that took all the pushes of its budget in earlier sessions has
\* been started again
C14_Witness ==
    /\ ret.op = "start" /\ ret.status = "ok"
    /\ nextOffset = MaxPush + 1
    /\ NumLinks = 2
    /\ \A i \in LinkIndices :
          mLinks[i].queue = <<>> /\ mLinks[i].superpageCounter = 0
    /\ mReadyQueue = <<>>
    /\ mLinkQueuesTotalAvailable = LINK_QUEUE_CAPACITY * NumLinks

\* the commands that reset the card, arm the buffer or switch data taking,
\* and the model's mark of the clearing of the queues
ResetArmTakingCmds ==
    {"resetDataGeneratorCounter", "resetCard", "clearQueues",
     "setDataEmulatorEnabled(true)", "setDataEmulatorEnabled(false)",
     "disableDataTaking", "enableDataTaking"}

\* a combination of generator and loopback mode the CRU does not support
UnsupportedCombination ==
    \/ mGeneratorEnabled /\ mLoopbackMode \notin {"Internal", "Ddg"}
    \/ ~mGeneratorEnabled /\ mLoopbackMode # "None"

\* C15: a start with the data generator and a loopback mode other than
\* Internal or Ddg, or without the generator and a loopback mode other than
\* None, fails with the unsupported-configuration error; it has issued no
\* reset, arming or data-taking command, it leaves the link queues, the
\* superpageCounters, the ready queue and mLinkQueuesTotalAvailable as they
\* were, and the channel stays Stopped.
C15_UnsupportedStartFails ==
    [][(ret'.op = "start" /\ UnsupportedCombination)
        => /\ ret'.status = "UnsupportedConfiguration"
           /\ \A k \in 1..Len(hwLog') :
                 hwLog'[k].cmd \notin ResetArmTakingCmds
           /\ UNCHANGED <<mLinks, mReadyQueue, mLinkQueuesTotalAvailable>>
           /\ mDmaState = "Stopped" /\ mDmaState' = "Stopped"]_vars

\* a start with the generator and loopback mode None has failed after it
\* had set the generator pattern
C15_Witness ==
    /\ ret.op = "start" /\ ret.status = "UnsupportedConfiguration"
    /\ mGeneratorEnabled /\ mLoopbackMode = "None"
    /\ hwLog = <<Cmd("setDataGeneratorPattern")>>
    /\ mDmaState = "Stopped"

\* C16: a reset of level Nothing sends the card no command and changes
\* nothing; a reset of any other level sends the card the generator-counter
\* reset and then the card reset, and leaves every link queue, every
\* superpageCounter, the ready queue and mLinkQueuesTotalAvailable as they
\* were.
C16_Reset ==
    [][ret'.op = "reset"
        => /\ ret'.status = "ok"
           /\ UNCHANGED <<mLinks, mReadyQueue, mLinkQueuesTotalAvailable>>
           /\ IF ret'.arg = "Nothing"
              THEN /\ hwLog' = <<>>
                   /\ UNCHANGED <<config, lifecycle, superpageCount,
                                  descriptorsPushed, nextOffset>>
              ELSE hwLog' = <<Cmd("resetDataGeneratorCounter"),
                              Cmd("resetCard")>>]_vars

\* a reset of level RorcDiu of a stopped channel that holds ready and
\* pending superpages
C16_Witness ==
    /\ ret.op = "reset" /\ ret.arg = "RorcDiu"
    /\ hwLog = resetCru
    /\ mReadyQueue # <<>>
    /\ \E i \in LinkIndices :
          mLinks[i].queue # <<>> /\ mLinks[i].superpageCounter > 0

\* the superpages the channel holds, by their offsets
Held == Offsets(AllQueued)

\* C17 as claimed: no call but a pop takes a superpage out of the queues.
C17_OnlyPopRemoves ==
    [][ret'.op # "pop" => Held \subseteq Held']_vars

\* C17: a superpage that a push has accepted is in exactly one queue until
\* a pop returns it or a start that succeeds clears the queues: a push adds
\* its superpage, a pop takes out the one it returns, a successful start
\* takes out all, and no other call changes what the channel holds.
C17_PopOrStartRemoves ==
    /\ [](Len(AllQueued) = Cardinality(Held))
    /\ [][Held' =
            IF ret'.op = "push" /\ ret'.status = "ok"
              THEN Held \cup {nextOffset}
            ELSE IF ret'.op = "pop" /\ ret'.status = "ok"
              THEN Held \ {ret'.value[1].offset}
            ELSE IF ret'.op = "start" /\ ret'.status = "ok"
              THEN {}
            ELSE Held]_vars

\* a pop has returned one of three pushed superpages; of the other two one
\* is ready and one is pending
C17_Witness ==
    /\ ret.op = "pop" /\ ret.status = "ok"
    /\ ret.value[1].offset \notin Held
    /\ Cardinality(Held) = 2
    /\ Len(mReadyQueue) = 1
    /\ nextOffset = 4

\* the superpages of link i that the card reports and the link has not yet
\* counted
Unacknowledged(i) ==
    IF HwCount(i) > mLinks[i].superpageCounter
    THEN HwCount(i) - mLinks[i].superpageCounter
    ELSE 0

\* C18: a superpage in a link queue is not ready, a superpage in the ready
\* queue is ready with received = size, and a fill or a stop marks ready
\* (moves to the ready queue) only superpages that the card has reported:
\* from no link more than the card's count is above the link's
\* superpageCounter.
C18_ReadyIffReported ==
    /\ [](\A i \in LinkIndices :
            \A k \in 1..Len(mLinks[i].queue) : ~mLinks[i].queue[k].ready)
    /\ [](\A k \in 1..Len(mReadyQueue) :
            /\ mReadyQueue[k].ready
            /\ mReadyQueue[k].received = mReadyQueue[k].size)
    /\ [][ret'.op \in {"fill", "stop"}
           => \A i \in LinkIndices : Len(Taken(i)) <= Unacknowledged(i)]_vars

\* C19: between two starts no link's superpageCounter decreases, so that
\* only a start sets it back to 0, and it never exceeds the number of
\* superpages pushed to the link since the last start.
C19_CounterMonotone ==
    /\ [][~(ret'.op = "start" /\ ret'.status = "ok")
           => \A i \in LinkIndices :
                 mLinks'[i].superpageCounter >= mLinks[i].superpageCounter]_vars
    /\ [](\A i \in LinkIndices :
            mLinks[i].superpageCounter <= descriptorsPushed[mLinks[i].id])

\* after fills and a stop a link has counted every superpage pushed to it,
\* one more than the card has reported
C19_Witness ==
    /\ ret.op = "stop" /\ ret.status = "ok"
    /\ NumLinks = 2
    /\ mLinks[0].superpageCounter = 2
    /\ descriptorsPushed[mLinks[0].id] = 2
    /\ HwCount(0) = 1
    /\ mLinks[1].superpageCounter = 0 /\ descriptorsPushed[mLinks[1].id] = 1

\* C20: once the channel has been started no link queue holds more than
\* LINK_QUEUE_CAPACITY superpages, and while mLinkQueuesTotalAvailable is
\* above 0 the least-loaded link, which is the link getNextLinkIndex picks,
\* holds fewer than LINK_QUEUE_CAPACITY; no push fails with LinkQueueFull.
C20_LinkQueueBounded ==
    /\ everStarted =>
          /\ \A i \in LinkIndices :
                Len(mLinks[i].queue) <= LINK_QUEUE_CAPACITY
          /\ mLinkQueuesTotalAvailable > 0 =>
                /\ \A i \in LinkIndices :
                      IsLeastLoaded(mLinks, i)
                         => Len(mLinks[i].queue) < LINK_QUEUE_CAPACITY
                /\ Len(mLinks[getNextLinkIndex(mLinks)].queue)
                      < LINK_QUEUE_CAPACITY
    /\ ret.status # "LinkQueueFull"

\* a push has filled the first of 2 link queues; the second has a slot left
C20_Witness ==
    /\ everStarted
    /\ ret.op = "push" /\ ret.status = "ok"
    /\ NumLinks = 2
    /\ Len(mLinks[0].queue) = LINK_QUEUE_CAPACITY
    /\ Len(mLinks[1].queue) < LINK_QUEUE_CAPACITY
    /\ mLinkQueuesTotalAvailable > 0
    /\ getNextLinkIndex(mLinks) = 1

\* the links whose queue a step has made longer
Grown == {i \in LinkIndices : Len(mLinks'[i].queue) > Len(mLinks[i].queue)}

\* C21: a push that succeeds sends the card exactly one
\* pushSuperpageDescriptor command, with the id of the one link whose queue
\* took the superpage, its DMA pages and its address; a push that fails
\* sends none; so, while the channel is started, the descriptors sent for a
\* link since the start are as many as its superpageCounter plus the
\* superpages in its queue.
C21_OneDescriptorPerPush ==
    /\ [][ret'.op = "push"
           => IF ret'.status = "ok"
              THEN /\ Len(hwLog') = 1
                   /\ hwLog'[1].cmd = "pushSuperpageDescriptor"
                   /\ \E i \in LinkIndices :
                         /\ Grown = {i}
                         /\ mLinks'[i].queue[Len(mLinks'[i].queue)].offset
                               = nextOffset
                         /\ hwLog'[1].args[1] = mLinks[i].id
                         /\ hwLog'[1].args[3] = nextOffset
              ELSE hwLog' = <<>> /\ Grown = {}]_vars
    /\ [](mDmaState = "Started"
            => \A i \in LinkIndices :
                  descriptorsPushed[mLinks[i].id]
                     = mLinks[i].superpageCounter + Len(mLinks[i].queue))

\* a push to the second of 2 links of a started channel, after a fill has
\* taken a superpage of the first
C21_Witness ==
    /\ ret.op = "push" /\ ret.status = "ok"
    /\ mDmaState = "Started"
    /\ NumLinks = 2
    /\ hwLog[1].args[1] = mLinks[1].id
    /\ mLinks[0].superpageCounter = 1 /\ Len(mLinks[0].queue) = 1
    /\ descriptorsPushed[mLinks[0].id] = 2
    /\ descriptorsPushed[mLinks[1].id] = 1 /\ Len(mLinks[1].queue) = 1

\* the card has reported the superpage of this offset as written: it is
\* pending on a link, within the superpages the card counts beyond the
\* link's superpageCounter
ReportedArrived(offset) ==
    \E i \in LinkIndices :
       \E k \in 1..Len(mLinks[i].queue) :
          /\ mLinks[i].queue[k].offset = offset
          /\ k <= HwCount(i) - mLinks[i].superpageCounter

InReadyQueue(offset) == offset \in Offsets(mReadyQueue)

PopReturned(offset) ==
    /\ ret.op = "pop" /\ ret.status = "ok"
    /\ ret.value[1].offset = offset

Places(log, cmd) == {k \in 1..Len(log) : log[k].cmd = cmd}

\* every place of command a is before every place of command b
Before(log, a, b) ==
    \A k \in Places(log, a) : \A l \in Places(log, b) : k < l

ConfigurationCmds ==
    {"setDataGeneratorPattern", "setDebugModeEnabled(true)", "setDataSource"}

GbtSource == ~(mGeneratorEnabled /\ mLoopbackMode = "Internal")

\* C23: a start that succeeds configures the generator and the data source,
\* then resets the generator counter, then resets the card, then clears the
\* queues and counters, then arms the buffer, each of these once, and then,
\* only when the data source is the GBT, enables data taking; nothing else
\* is sent.
C23_StartOrder ==
    [][(ret'.op = "start" /\ ret'.status = "ok")
        => LET log == hwLog'
           IN /\ \A c \in ConfigurationCmds :
                    Before(log, c, "resetDataGeneratorCounter")
              /\ Before(log, "resetDataGeneratorCounter", "resetCard")
              /\ Before(log, "resetCard", "clearQueues")
              /\ Before(log, "clearQueues", "setDataEmulatorEnabled(true)")
              /\ Before(log, "setDataEmulatorEnabled(true)",
                        "disableDataTaking")
              /\ Before(log, "disableDataTaking", "enableDataTaking")
              /\ \A c \in {"resetDataGeneratorCounter", "resetCard",
                           "clearQueues", "setDataEmulatorEnabled(true)"} :
                    Cardinality(Places(log, c)) = 1
              /\ Cardinality(Places(log, "enableDataTaking"))
                    = IF GbtSource THEN 1 ELSE 0
              /\ Cardinality(Places(log, "setDataSource"))
                    = IF dataSelection THEN 1 ELSE 0
              /\ Cardinality(Places(log, "setDataGeneratorPattern"))
                    = IF mGeneratorEnabled THEN 1 ELSE 0
              /\ \A k \in 1..Len(log) :
                    log[k].cmd \in ConfigurationCmds \cup ResetArmTakingCmds
              /\ mLinks' = ClearLinks(mLinks) /\ mReadyQueue' = <<>>]_vars

\* a channel with the data generator in loopback mode Ddg has been started
\* again: the data source is the GBT and data taking is enabled last
C23_Witness ==
    /\ ret.op = "start" /\ ret.status = "ok"
    /\ mGeneratorEnabled /\ mLoopbackMode = "Ddg" /\ dataSelection
    /\ nextOffset > 1
    /\ Len(hwLog) = 8
    /\ hwLog[1].cmd = "setDataGeneratorPattern"
    /\ hwLog[6].cmd = "setDataEmulatorEnabled(true)"
    /\ hwLog[8].cmd = "enableDataTaking"

====
